---- MODULE Spec2Model ----
(***************************************************************************)
(* Model of the Harvest mandi price scraper: app/scraper.py                *)
(* (MandiDataScraper), started by app/main.py (refresh_data) and           *)
(* app/scheduler.py (scheduled_scrape), writing to the three store tables  *)
(* price_data, cities and commodities.                                     *)
(*                                                                         *)
(* Every HTTP request and every store request is one step.  The upstream   *)
(* site is a value (the variable site); a request may also fail in         *)
(* transport.  Text is kept as strings; the string conversions the code    *)
(* applies (strip, lower/replace, replace('#','')) are tables over the     *)
(* texts that occur in the modelled sites.                                 *)
(***************************************************************************)
EXTENDS Integers, Sequences, FiniteSets, TLC

(***************************************************************************)
(* Bounds of the model and program constants.                              *)
(***************************************************************************)
\* number of scrape runs started in one behaviour
MaxRuns == 2
\* number of requests (HTTP or store) that fail in one behaviour
MaxFailures == 2
\* rows of the long history table of the bulk site
BulkRows == 52
\* runs and failing requests in the behaviours of the bulk site
BulkRuns == 1
BulkFailures == 2
\* failing requests in the behaviours with overlapping runs
OverlapFailures == 1
\* scraper.py:235  batch_size = 50
batch_size == 50

Runners == {"manual", "timed"}

(***************************************************************************)
(* Sequence helpers.                                                       *)
(***************************************************************************)
RECURSIVE Concat(_)
Concat(ss) ==
    IF ss = <<>> THEN <<>> ELSE Head(ss) \o Concat(Tail(ss))

Min(a, b) == IF a < b THEN a ELSE b

(***************************************************************************)
(* Text conversions, as tables over the texts of the modelled sites.       *)
(***************************************************************************)
\* str.strip()
Strip(s) ==
    CASE s = " Ranchi " -> "Ranchi"
      [] s = " Rice "   -> "Rice"
      [] OTHER          -> s

\* name.lower().replace(' ', '-')
Slugify(s) ==
    CASE s = "Ranchi"      -> "ranchi"
      [] s = "Bokaro City" -> "bokaro-city"
      [] s = "Dhanbad"     -> "dhanbad"
      [] OTHER             -> s

\* target.replace('#', '')
StripHash(s) ==
    CASE s = "#d1" -> "d1"
      [] s = "#d2" -> "d2"
      [] s = "#d3" -> "d3"
      [] s = "#d4" -> "d4"
      [] s = "#d9" -> "d9"
      [] OTHER     -> s

\* Python truthiness of what Tag.get returns: None and '' are false
NoAttr == "<None>"
Truthy(s) == s # NoAttr /\ s # ""

Placeholder == "Select Jharkhand Mandi"

(***************************************************************************)
(* Pure parsing functions of MandiDataScraper.                             *)
(***************************************************************************)
\* A fetch that raised (requests error or raise_for_status)
Failed == [ok |-> FALSE]

PriceRecord(city, date, commodity, variety, min_price, max_price, modal_price, price_range) ==
    [city |-> city, date |-> date, commodity |-> commodity, variety |-> variety,
     min_price |-> min_price, max_price |-> max_price, modal_price |-> modal_price,
     price_range |-> price_range]

\* mutant: the placeholder label is not excluded
OptionQualifies_NoPlaceholder(o) ==
    Truthy(o.value) /\ ~Truthy(o.disabled)

\* get_city_options: the condition of line 37
OptionQualifies(o) ==
    Truthy(o.value) /\ ~Truthy(o.disabled) /\ o.text # Placeholder

RECURSIVE OptionsOf(_)
OptionsOf(os) ==
    IF os = <<>> THEN <<>>
    ELSE (IF OptionQualifies(Head(os))
          THEN <<[value |-> Head(os).value, slug |-> Head(os).slug,
                  name |-> Strip(Head(os).text)]>>
          ELSE <<>>) \o OptionsOf(Tail(os))

\* get_city_options applied to the response of the state page
get_city_options(resp) ==
    IF ~resp.ok THEN <<>>
    ELSE IF ~resp.dropdown THEN <<>>
    ELSE OptionsOf(resp.options)

\* scrape_city_data, lines 102-105: the URL of a city page
city_url(city) ==
    IF Truthy(city.slug) THEN <<"mandi", city.slug>>
    ELSE <<"mandi", city.value, Slugify(city.name)>>

\* mutant: five cells are taken for enough, the modal price left empty
extract_detail_data_FiveCells(detail_row, city, commodity_name, price_range) ==
    LET cells == detail_row.cells IN
    IF Len(cells) >= 5
    THEN <<PriceRecord(city.name,
                       Strip(cells[1].text),
                       IF Strip(cells[2].text) # "" THEN Strip(cells[2].text) ELSE commodity_name,
                       Strip(cells[3].text), Strip(cells[4].text),
                       Strip(cells[5].text),
                       IF Len(cells) >= 6 THEN Strip(cells[6].text) ELSE "",
                       price_range)>>
    ELSE <<>>

\* extract_detail_data: <<>> models None
extract_detail_data(detail_row, city, commodity_name, price_range) ==
    LET cells == detail_row.cells IN
    IF Len(cells) >= 6
    THEN <<PriceRecord(city.name,
                       Strip(cells[1].text),
                       IF Strip(cells[2].text) # "" THEN Strip(cells[2].text) ELSE commodity_name,
                       Strip(cells[3].text), Strip(cells[4].text),
                       Strip(cells[5].text), Strip(cells[6].text),
                       price_range)>>
    ELSE <<>>

\* soup.find('tr', id=target_id): the first row of the document with that id
FindDetailRow(page, target_id) ==
    LET hits == {i \in DOMAIN page.trs : page.trs[i].id = target_id} IN
    IF hits = {} THEN <<>>
    ELSE <<page.trs[CHOOSE i \in hits : \A j \in hits : i <= j]>>

\* mutant: mobile-view rows are not skipped
HistoryRowSkipped_HeaderOnly(row) == row.th

\* get_commodity_details, line 67: a row that is skipped
HistoryRowSkipped(row) == row.th \/ row.class = "m_view"

\* get_commodity_details, lines 71-89: the record of one history row
HistoryRowRecords(row, base_data) ==
    IF HistoryRowSkipped(row) THEN <<>>
    ELSE IF Len(row.cells) >= 6
    THEN LET min_price == Strip(row.cells[4])
             max_price == Strip(row.cells[5])
         IN <<PriceRecord(base_data.city, Strip(row.cells[1]), Strip(row.cells[2]),
                          Strip(row.cells[3]), min_price, max_price, Strip(row.cells[6]),
                          IF min_price # "" /\ max_price # ""
                          THEN min_price \o " - " \o max_price ELSE "N/A")>>
    ELSE <<>>

RECURSIVE HistoryRecords(_, _)
HistoryRecords(rows, base_data) ==
    IF rows = <<>> THEN <<>>
    ELSE HistoryRowRecords(Head(rows), base_data) \o HistoryRecords(Tail(rows), base_data)

\* get_commodity_details applied to the response of the history page
get_commodity_details(resp, base_data) ==
    IF ~resp.ok THEN <<base_data>>
    ELSE IF ~resp.table THEN <<base_data>>
    ELSE LET historical_data == HistoryRecords(resp.rows, base_data) IN
         IF historical_data # <<>> THEN historical_data ELSE <<base_data>>

(***************************************************************************)
(* The upstream site: the state page, the city pages by URL and the        *)
(* history pages by link.  A URL the site does not serve is a 404.         *)
(***************************************************************************)
NoElem == "<no element>"
NoLink == "<no a>"

Option(value, disabled, slug, text) ==
    [value |-> value, disabled |-> disabled, slug |-> slug, text |-> text]

\* a summary row (tr.m_view): div.float-start, div.d-inline, button and its data-bs-target
SummaryRow(label, price, button, target) ==
    [label |-> label, price |-> price, button |-> button, target |-> target]

Cell(text) == [text |-> text, href |-> NoLink]
LinkCell(text, href) == [text |-> text, href |-> href]

\* a detail row (tr with an id) of six cells
DetailRow(id, date, commodity, variety, min_price, max_price, modal_price) ==
    [id |-> id,
     cells |-> <<Cell(date), commodity, Cell(variety), Cell(min_price),
                 Cell(max_price), Cell(modal_price)>>]

HistoryRow(date, commodity, variety, min_price, max_price, modal_price) ==
    [th |-> FALSE, class |-> "",
     cells |-> <<date, commodity, variety, min_price, max_price, modal_price>>]

HeaderRow == [th |-> TRUE, class |-> "", cells |-> <<>>]

StatePage(options) == [ok |-> TRUE, dropdown |-> TRUE, options |-> options]
CityPage(rows, trs) == [ok |-> TRUE, table |-> TRUE, rows |-> rows, trs |-> trs]
NoTablePage == [ok |-> TRUE, table |-> FALSE, rows |-> <<>>, trs |-> <<>>]
HistoryPage(rows) == [ok |-> TRUE, table |-> TRUE, rows |-> rows]

PlaceholderOption == Option("", "", NoAttr, Placeholder)
RanchiOption == Option("1", NoAttr, "ranchi", " Ranchi ")
BokaroOption == Option("2", NoAttr, NoAttr, "Bokaro City")
DhanbadOption == Option("3", NoAttr, "dhanbad", "Dhanbad")

RanchiUrl == <<"mandi", "ranchi">>
BokaroUrl == <<"mandi", "2", "bokaro-city">>
DhanbadUrl == <<"mandi", "dhanbad">>

\* Two cities; Ranchi lists three commodities, one with a two-row history;
\* Bokaro City has no data table.
SiteEndToEnd ==
    [name  |-> "end-to-end",
     state |-> StatePage(<<PlaceholderOption, RanchiOption, BokaroOption>>),
     city  |-> (RanchiUrl :> CityPage(
                   <<SummaryRow("Rice", "20 - 30", TRUE, "#d1"),
                     SummaryRow("Wheat", "10 - 20", TRUE, "#d2"),
                     SummaryRow("Maize", NoElem, TRUE, "#d3")>>,
                   <<DetailRow("d1", "05-11", Cell(" Rice "), "Fine", "20", "30", "25"),
                     DetailRow("d2", "05-11", LinkCell("Wheat", "/commodity/wheat"), "Local", "10", "20", "15"),
                     DetailRow("d3", "05-11", Cell(""), "Yellow", "", "12", "12")>>))
               @@ (BokaroUrl :> NoTablePage),
     hist  |-> ("/commodity/wheat" :> HistoryPage(
                   <<HeaderRow,
                     HistoryRow("04-11", "Wheat", "Local", "11", "19", "15"),
                     HistoryRow("03-11", "Wheat", "Local", "", "18", "14")>>))]

\* One city whose page holds every kind of malformed summary row around one
\* good row, whose history table has no valid row.
SiteMalformed ==
    [name  |-> "malformed",
     state |-> StatePage(<<DhanbadOption>>),
     city  |-> (DhanbadUrl :> CityPage(
                   <<SummaryRow(NoElem, "1 - 2", TRUE, "#d1"),
                     SummaryRow("Gram", "1 - 2", FALSE, ""),
                     SummaryRow("Gram", "1 - 2", TRUE, ""),
                     SummaryRow("Rice", "20 - 30", TRUE, "#d1"),
                     SummaryRow("Gram", "1 - 2", TRUE, "#d9"),
                     SummaryRow("Gram", "1 - 2", TRUE, "#d4")>>,
                   <<DetailRow("d1", "05-11", LinkCell("Rice", "/commodity/rice"), "Fine", "20", "30", "25"),
                     [id |-> "d4",
                      cells |-> <<Cell("05-11"), LinkCell("Gram", "/commodity/rice"),
                                  Cell("Desi"), Cell("1"), Cell("2")>>]>>)),
     hist  |-> ("/commodity/rice" :> HistoryPage(
                   <<HeaderRow,
                     [th |-> FALSE, class |-> "m_view",
                      cells |-> <<"04-11", "Rice", "Fine", "21", "29", "25">>],
                     [th |-> FALSE, class |-> "",
                      cells |-> <<"04-11", "Rice", "Fine", "21", "29">>]>>))]

\* Two cities that list the same commodity in two varieties.
SiteVarieties ==
    [name  |-> "varieties",
     state |-> StatePage(<<RanchiOption, DhanbadOption>>),
     city  |-> (RanchiUrl :> CityPage(
                   <<SummaryRow("Rice", "20 - 30", TRUE, "#d1")>>,
                   <<DetailRow("d1", "05-11", Cell("Rice"), "Fine", "20", "30", "25")>>))
               @@ (DhanbadUrl :> CityPage(
                   <<SummaryRow("Rice", "15 - 18", TRUE, "#d1")>>,
                   <<DetailRow("d1", "05-11", Cell("Rice"), "Coarse", "15", "18", "16")>>)),
     hist  |-> <<>>]

\* The state page has no select#redirectDropdown.
SiteNoSelector ==
    [name  |-> "no-selector",
     state |-> [ok |-> TRUE, dropdown |-> FALSE, options |-> <<>>],
     city  |-> <<>>,
     hist  |-> <<>>]

\* The selector holds only the placeholder, an option without value and a
\* disabled option.
SiteNoOption ==
    [name  |-> "no-option",
     state |-> StatePage(<<PlaceholderOption, Option("1", NoAttr, "ranchi", Placeholder),
                           Option("", NoAttr, "ranchi", "Ranchi"),
                           Option("4", "disabled", NoAttr, "Closed")>>),
     city  |-> (RanchiUrl :> CityPage(
                   <<SummaryRow("Rice", "20 - 30", TRUE, "#d1")>>,
                   <<DetailRow("d1", "05-11", Cell("Rice"), "Fine", "20", "30", "25")>>)),
     hist  |-> <<>>]

\* One city, one commodity, a history of BulkRows rows.
SiteBulk ==
    [name  |-> "bulk",
     state |-> StatePage(<<RanchiOption>>),
     city  |-> (RanchiUrl :> CityPage(
                   <<SummaryRow("Rice", "20 - 30", TRUE, "#d1")>>,
                   <<DetailRow("d1", "05-11", LinkCell("Rice", "/commodity/rice"), "Fine", "20", "30", "25")>>)),
     hist  |-> ("/commodity/rice" :> HistoryPage(
                   [n \in 1..BulkRows |->
                       HistoryRow(ToString(n), "Rice", "Fine", "20", "30", "25")]))]

\* One city, one commodity, a history of one row.
SiteSingle ==
    [name  |-> "single",
     state |-> StatePage(<<RanchiOption>>),
     city  |-> (RanchiUrl :> CityPage(
                   <<SummaryRow("Rice", "20 - 30", TRUE, "#d1")>>,
                   <<DetailRow("d1", "05-11", LinkCell("Rice", "/commodity/rice"), "Fine", "20", "30", "25")>>)),
     hist  |-> ("/commodity/rice" :> HistoryPage(
                   <<HeaderRow, HistoryRow("04-11", "Rice", "Fine", "21", "29", "25")>>))]

Sites == {SiteEndToEnd, SiteMalformed, SiteVarieties, SiteNoSelector, SiteNoOption}

\* what the site serves at a URL
Serve(pages, url) == IF url \in DOMAIN pages THEN pages[url] ELSE Failed

(***************************************************************************)
(* State.                                                                  *)
(***************************************************************************)
VARIABLES
    site,           \* the upstream site
    price_data,     \* store table price_data: rows in insertion order
    cities,         \* store table cities
    commodities,    \* store table commodities
    next_id,        \* the serial id the store gives the next price_data row
    scraper,        \* per runner: its MandiDataScraper and where its run stands
    runs_left,      \* runs that may still be started
    failures_left   \* requests that may still fail

vars == <<site, price_data, cities, commodities, next_id, scraper, runs_left, failures_left>>

store == <<price_data, cities, commodities>>

StateUrl == <<"state", "jharkhand">>

Snapshot ==
    [price_data |-> price_data, cities |-> cities, commodities |-> commodities,
     next_id |-> next_id]

\* No run: the runner has no scraper instance.
Idle ==
    [pc |-> "idle", listing |-> Failed, history |-> Failed, cities |-> <<>>, i |-> 0, soup |-> Failed,
     row |-> 0, data |-> <<>>, detail_data |-> <<>>, commodity_link |-> NoLink,
     all_data |-> <<>>, names |-> {}, city_name |-> "", pairs |-> {},
     commodity |-> <<"", "">>, b |-> 0, k |-> 0, success_count |-> 0, log |-> "",
     emitted |-> <<>>, fetched |-> <<>>, rejected |-> {}, dropped |-> {},
     store_failed |-> FALSE, deleted_at |-> 0,
     before |-> [price_data |-> <<>>, cities |-> <<>>, commodities |-> <<>>, next_id |-> 1]]

\* the pc values of store_data_in_supabase past its first return
StorePcs == {"delete", "city_select", "city_insert", "commodity_select",
             "commodity_insert", "batch", "single"}

FailChoices == IF failures_left > 0 THEN BOOLEAN ELSE {FALSE}

Spend(fail) == failures_left' = IF fail THEN failures_left - 1 ELSE failures_left

(***************************************************************************)
(* Steps of one run, as changes of the runner's record.                    *)
(***************************************************************************)
\* mutant: the writer goes on to the delete with nothing to store
store_data_in_supabase_NoGuard(s) ==
    [s EXCEPT !.pc = "delete"]

\* store_data_in_supabase, lines 195-197: nothing to store, no store request
store_data_in_supabase(s) ==
    IF s.all_data = <<>>
    THEN [s EXCEPT !.pc = "done", !.log = "no_data"]
    ELSE [s EXCEPT !.pc = "delete"]

\* mutant: the store writer is called inside the loop, after the first city
all_cities_done_FirstCity(s) == TRUE

\* scrape_and_store_data, line 298: the loop over the cities has ended
all_cities_done(s) == s.i >= Len(s.cities)

\* scrape_and_store_data, lines 300-306: a city has returned city_data
EndCity(s, city_data) ==
    LET t == [s EXCEPT !.all_data = @ \o city_data,
                       !.emitted = Append(@, city_data),
                       !.i = @ + 1,
                       !.soup = Failed, !.row = 0, !.data = <<>>,
                       !.detail_data = <<>>, !.commodity_link = NoLink]
    IN IF all_cities_done(s)
       THEN store_data_in_supabase(t)
       ELSE [t EXCEPT !.pc = "city"]

\* scrape_city_data, line 122: on to the next summary row, or return data
NextRow(s) ==
    IF s.row < Len(s.soup.rows)
    THEN [s EXCEPT !.row = @ + 1, !.pc = "row"]
    ELSE EndCity(s, s.data)

\* scrape_city_data, lines 125-151: what one summary row yields: the detail
\* record (none: <<>>) and the history link of its detail row
summary_row(page, row, city) ==
    IF row.label = NoElem \/ ~row.button
    THEN [detail |-> <<>>, link |-> NoLink]
    ELSE LET commodity_name == Strip(row.label)
             price_range == IF row.price # NoElem THEN Strip(row.price) ELSE "N/A - N/A"
             target_id == StripHash(row.target)
             found == IF target_id # "" THEN FindDetailRow(page, target_id) ELSE <<>>
             detail_data == IF found # <<>>
                            THEN extract_detail_data(found[1], city, commodity_name, price_range)
                            ELSE <<>>
         IN [detail |-> detail_data,
             link |-> IF detail_data # <<>> THEN found[1].cells[2].href ELSE NoLink]

\* scrape_city_data, lines 144 and 153: data after the history came back
with_history(data, historical_data) == data \o historical_data

\* mutant: the error is not caught and leaves scrape_and_store_data
OnStoreError_Raised(s) ==
    [s EXCEPT !.pc = "raised", !.store_failed = TRUE]

\* store_data_in_supabase, lines 280-283: a store request raised
OnStoreError(s) ==
    [s EXCEPT !.pc = "done", !.log = "store_error", !.store_failed = TRUE]

\* mutant: eq("id", 0) in place of neq("id", 0)
DeleteFilter_Eq(row) == row.id = 0

\* store_data_in_supabase, line 202: the rows the delete removes
DeleteFilter(row) == row.id # 0

\* store_data_in_supabase, lines 205-207 and 220-222
CityNames(all_data) == {all_data[n].city : n \in DOMAIN all_data}
CommodityPairs(all_data) ==
    {<<all_data[n].commodity, all_data[n].variety>> : n \in DOMAIN all_data}

\* store_data_in_supabase, lines 211-212 and 226-227: the select finds a row
CityExists(name) == \E n \in DOMAIN cities : cities[n].name = name

\* mutant: the commodity is looked up by name and variety
CommodityExists_ByPair(pair) ==
    \E n \in DOMAIN commodities :
        commodities[n].name = pair[1] /\ commodities[n].variety = pair[2]

CommodityExists(pair) == \E n \in DOMAIN commodities : commodities[n].name = pair[1]

\* mutant: the slice ends one record early
Batch_Short(all_data, b) ==
    SubSeq(all_data, (b - 1) * batch_size + 1, Min(b * batch_size, Len(all_data)) - 1)

\* store_data_in_supabase, line 236: batch b of all_data
Batch(all_data, b) ==
    SubSeq(all_data, (b - 1) * batch_size + 1, Min(b * batch_size, Len(all_data)))

\* mutant: the fallback loop runs over all_data, not over the batch
FallbackItems_AllData(s) == s.all_data

\* store_data_in_supabase, line 260: the records the fallback loop inserts
FallbackItems(s) == Batch(s.all_data, s.b)

\* store_data_in_supabase, lines 242-251: the row inserted for a record
Row(id, item) ==
    [id |-> id, city |-> item.city, date |-> item.date, commodity |-> item.commodity,
     variety |-> item.variety, min_price |-> item.min_price, max_price |-> item.max_price,
     modal_price |-> item.modal_price, price_range |-> item.price_range]

Rows(items, first_id) == [n \in DOMAIN items |-> Row(first_id + n - 1, items[n])]

\* store_data_in_supabase, line 238: on to the next batch, or the final log line
NextBatch(s) ==
    IF s.b * batch_size < Len(s.all_data)
    THEN [s EXCEPT !.b = @ + 1, !.k = 0, !.pc = "batch"]
    ELSE [s EXCEPT !.k = 0, !.pc = "done", !.log = "stored"]

\* the city loop of the store writer has ended: on to the commodities
AfterCityName(s, name) ==
    LET t == [s EXCEPT !.names = @ \ {name}, !.city_name = ""] IN
    IF t.names # {} THEN [t EXCEPT !.pc = "city_select"]
    ELSE [t EXCEPT !.pc = "commodity_select", !.pairs = CommodityPairs(s.all_data)]

AfterCommodity(s, pair) ==
    LET t == [s EXCEPT !.pairs = @ \ {pair}, !.commodity = <<"", "">>] IN
    IF t.pairs # {} THEN [t EXCEPT !.pc = "commodity_select"]
    ELSE [t EXCEPT !.pc = "batch", !.b = 1, !.success_count = 0]

(***************************************************************************)
(* Actions.                                                                *)
(***************************************************************************)
Set(r, s) == scraper' = [scraper EXCEPT ![r] = s]

NoRunActive == \A r \in Runners : scraper[r].pc = "idle"

\* a new MandiDataScraper whose scrape_and_store_data is about to run
Start(r) ==
    /\ scraper[r].pc = "idle"
    /\ runs_left > 0
    /\ runs_left' = runs_left - 1
    /\ Set(r, [Idle EXCEPT !.pc = "start", !.before = Snapshot])
    /\ UNCHANGED <<site, store, next_id, failures_left>>

\* main.py: POST /refresh-data
refresh_data == Start("manual")

\* scheduler.py: the cron job
scheduled_scrape == Start("timed")

\* scrape_and_store_data, lines 289-297, with get_city_options
Enumerate(r) ==
    LET s == scraper[r] IN
    /\ s.pc = "start"
    /\ \E fail \in FailChoices :
         LET resp == IF fail THEN Failed ELSE site.state
             found == get_city_options(resp)
             t == [s EXCEPT !.listing = resp, !.fetched = Append(@, StateUrl)]
         IN /\ Spend(fail)
            /\ Set(r, IF found = <<>>
                      THEN [t EXCEPT !.pc = "done", !.log = "no_cities"]
                      ELSE [t EXCEPT !.cities = found, !.all_data = <<>>, !.i = 1,
                                     !.pc = "city"])
    /\ UNCHANGED <<site, store, next_id, runs_left>>

\* scrape_city_data, lines 102-120: the city page is fetched
FetchCity(r) ==
    LET s == scraper[r]
        city == s.cities[s.i]
    IN
    /\ s.pc = "city"
    /\ \E fail \in FailChoices :
         LET resp == IF fail THEN Failed ELSE Serve(site.city, city_url(city))
             t == [s EXCEPT !.fetched = Append(@, city_url(city))]
         IN /\ Spend(fail)
            /\ Set(r, IF ~resp.ok THEN EndCity(t, <<>>)
                      ELSE IF ~resp.table THEN EndCity(t, <<>>)
                      ELSE NextRow([t EXCEPT !.soup = resp, !.row = 0, !.data = <<>>]))
    /\ UNCHANGED <<site, store, next_id, runs_left>>

\* scrape_city_data, lines 122-151: one summary row, up to its history request
ProcessRow(r) ==
    LET s == scraper[r]
        got == summary_row(s.soup, s.soup.rows[s.row], s.cities[s.i])
    IN
    /\ s.pc = "row"
    /\ Set(r, IF got.detail = <<>> THEN NextRow(s)
              ELSE IF got.link = NoLink
              THEN NextRow([s EXCEPT !.data = @ \o got.detail])
              ELSE [s EXCEPT !.data = @ \o got.detail, !.detail_data = got.detail,
                             !.commodity_link = got.link, !.pc = "history"])
    /\ UNCHANGED <<site, store, next_id, runs_left, failures_left>>

\* scrape_city_data, lines 152-153, with get_commodity_details
FetchHistory(r) ==
    LET s == scraper[r] IN
    /\ s.pc = "history"
    /\ \E fail \in FailChoices :
         LET resp == IF fail THEN Failed ELSE Serve(site.hist, s.commodity_link)
             historical_data == get_commodity_details(resp, s.detail_data[1])
         IN /\ Spend(fail)
            /\ Set(r, NextRow([s EXCEPT !.data = with_history(s.data, historical_data),
                                        !.history = resp,
                                        !.fetched = Append(@, <<"link", s.commodity_link>>),
                                        !.detail_data = <<>>,
                                        !.commodity_link = NoLink]))
    /\ UNCHANGED <<site, store, next_id, runs_left>>

\* store_data_in_supabase, lines 202-207: delete every price_data row
DeleteAll(r) ==
    LET s == scraper[r] IN
    /\ s.pc = "delete"
    /\ \E fail \in FailChoices :
         /\ Spend(fail)
         /\ IF fail
            THEN /\ Set(r, OnStoreError(s))
                 /\ UNCHANGED price_data
            ELSE /\ price_data' = SelectSeq(price_data, LAMBDA row : ~DeleteFilter(row))
                 /\ Set(r, [s EXCEPT !.deleted_at = next_id, !.pc = "city_select",
                                     !.names = CityNames(s.all_data)])
    /\ UNCHANGED <<site, cities, commodities, next_id, runs_left>>

\* store_data_in_supabase, lines 209-212: look one city name up
SelectCity(r) ==
    LET s == scraper[r] IN
    /\ s.pc = "city_select"
    /\ \E city_name \in s.names, fail \in FailChoices :
         /\ Spend(fail)
         /\ Set(r, IF fail THEN OnStoreError(s)
                   ELSE IF CityExists(city_name) THEN AfterCityName(s, city_name)
                   ELSE [s EXCEPT !.city_name = city_name, !.pc = "city_insert"])
    /\ UNCHANGED <<site, store, next_id, runs_left>>

\* store_data_in_supabase, lines 213-217: insert the city
InsertCity(r) ==
    LET s == scraper[r] IN
    /\ s.pc = "city_insert"
    /\ \E fail \in FailChoices :
         /\ Spend(fail)
         /\ IF fail
            THEN /\ Set(r, OnStoreError(s))
                 /\ UNCHANGED cities
            ELSE /\ cities' = Append(cities, [name |-> s.city_name,
                                              slug |-> Slugify(s.city_name),
                                              value |-> Slugify(s.city_name)])
                 /\ Set(r, AfterCityName(s, s.city_name))
    /\ UNCHANGED <<site, price_data, commodities, next_id, runs_left>>

\* store_data_in_supabase, lines 224-227: look one commodity name up
SelectCommodity(r) ==
    LET s == scraper[r] IN
    /\ s.pc = "commodity_select"
    /\ \E pair \in s.pairs, fail \in FailChoices :
         /\ Spend(fail)
         /\ Set(r, IF fail THEN OnStoreError(s)
                   ELSE IF CommodityExists(pair) THEN AfterCommodity(s, pair)
                   ELSE [s EXCEPT !.commodity = pair, !.pc = "commodity_insert"])
    /\ UNCHANGED <<site, store, next_id, runs_left>>

\* store_data_in_supabase, lines 228-231: insert the commodity
InsertCommodity(r) ==
    LET s == scraper[r] IN
    /\ s.pc = "commodity_insert"
    /\ \E fail \in FailChoices :
         /\ Spend(fail)
         /\ IF fail
            THEN /\ Set(r, OnStoreError(s))
                 /\ UNCHANGED commodities
            ELSE /\ commodities' = Append(commodities, [name |-> s.commodity[1],
                                                        variety |-> s.commodity[2]])
                 /\ Set(r, AfterCommodity(s, s.commodity))
    /\ UNCHANGED <<site, price_data, cities, next_id, runs_left>>

\* store_data_in_supabase, lines 238-258: insert one batch
InsertBatch(r) ==
    LET s == scraper[r]
        batch == Batch(s.all_data, s.b)
    IN
    /\ s.pc = "batch"
    /\ \E fail \in FailChoices :
         /\ Spend(fail)
         /\ IF fail
            THEN /\ Set(r, [s EXCEPT !.pc = "single", !.k = 1, !.store_failed = TRUE,
                                     !.rejected = @ \cup {s.b}])
                 /\ UNCHANGED <<price_data, next_id>>
            ELSE /\ price_data' = price_data \o Rows(batch, next_id)
                 /\ next_id' = next_id + Len(batch)
                 /\ Set(r, NextBatch([s EXCEPT !.success_count = @ + Len(batch)]))
    /\ UNCHANGED <<site, cities, commodities, runs_left>>

\* store_data_in_supabase, lines 260-276: insert one record of a rejected batch
InsertSingle(r) ==
    LET s == scraper[r]
        items == FallbackItems(s)
        t == IF s.k < Len(items) THEN [s EXCEPT !.k = @ + 1] ELSE NextBatch(s)
    IN
    /\ s.pc = "single"
    /\ \E fail \in FailChoices :
         /\ Spend(fail)
         /\ IF fail
            THEN /\ Set(r, [t EXCEPT !.store_failed = TRUE,
                                     !.dropped = @ \cup {(s.b - 1) * batch_size + s.k}])
                 /\ UNCHANGED <<price_data, next_id>>
            ELSE /\ price_data' = Append(price_data, Row(next_id, items[s.k]))
                 /\ next_id' = next_id + 1
                 /\ Set(r, [t EXCEPT !.success_count = @ + 1])
    /\ UNCHANGED <<site, cities, commodities, runs_left>>

\* scrape_and_store_data returns and the scraper instance is dropped
Return(r) ==
    /\ scraper[r].pc = "done"
    /\ Set(r, Idle)
    /\ UNCHANGED <<site, store, next_id, runs_left, failures_left>>

\* the upstream site changes between two runs
SiteUpdate ==
    /\ NoRunActive
    /\ runs_left > 0
    /\ site' \in Sites \ {site}
    /\ UNCHANGED <<store, next_id, scraper, runs_left, failures_left>>

Step(r) ==
    \/ Enumerate(r)
    \/ FetchCity(r)
    \/ ProcessRow(r)
    \/ FetchHistory(r)
    \/ DeleteAll(r)
    \/ SelectCity(r)
    \/ InsertCity(r)
    \/ SelectCommodity(r)
    \/ InsertCommodity(r)
    \/ InsertBatch(r)
    \/ InsertSingle(r)
    \/ Return(r)

InitStore ==
    /\ price_data = <<>>
    /\ cities = <<>>
    /\ commodities = <<>>
    /\ next_id = 1
    /\ scraper = [r \in Runners |-> Idle]

Init ==
    /\ site \in Sites
    /\ InitStore
    /\ runs_left = MaxRuns
    /\ failures_left = MaxFailures

\* runs that do not overlap: a run starts when no other run is active
Next ==
    \/ NoRunActive /\ refresh_data
    \/ NoRunActive /\ scheduled_scrape
    \/ SiteUpdate
    \/ \E r \in Runners : Step(r)

Spec == Init /\ [][Next]_vars

(***************************************************************************)
(* The bulk site: more records than one batch holds.                       *)
(***************************************************************************)
InitBulk ==
    /\ site = SiteBulk
    /\ InitStore
    /\ runs_left = BulkRuns
    /\ failures_left = BulkFailures

NextBulk ==
    \/ NoRunActive /\ refresh_data
    \/ NoRunActive /\ scheduled_scrape
    \/ \E r \in Runners : Step(r)

SpecBulk == InitBulk /\ [][NextBulk]_vars

(***************************************************************************)
(* Overlapping runs: main.py and scheduler.py start a run whether or not   *)
(* another one is active.                                                  *)
(***************************************************************************)
InitOverlap ==
    /\ site \in {SiteSingle, SiteMalformed}
    /\ InitStore
    /\ runs_left = MaxRuns
    /\ failures_left = OverlapFailures

NextOverlap ==
    \/ refresh_data
    \/ scheduled_scrape
    \/ \E r \in Runners : Step(r)

SpecOverlap == InitOverlap /\ [][NextOverlap]_vars


(***************************************************************************)
(* Properties.                                                             *)
(***************************************************************************)
\* a row of price_data without its id
Rec(row) ==
    PriceRecord(row.city, row.date, row.commodity, row.variety, row.min_price,
                row.max_price, row.modal_price, row.price_range)

Recs(rows) == [n \in DOMAIN rows |-> Rec(rows[n])]

RECURSIVE FilterIdx(_, _, _)
\* the subsequence of s at the indices i, lo <= i, that are not in drop
FilterIdx(s, lo, drop) ==
    IF lo > Len(s) THEN <<>>
    ELSE (IF lo \in drop THEN <<>> ELSE <<s[lo]>>) \o FilterIdx(s, lo + 1, drop)

\* every record the run has emitted so far, in order
Out(s) == Concat(s.emitted) \o s.data

\* the records of all_data the store writer has dealt with so far
Processed(s) ==
    IF s.pc = "batch" THEN (s.b - 1) * batch_size
    ELSE IF s.pc = "single" THEN (s.b - 1) * batch_size + s.k - 1
    ELSE IF s.pc = "done" /\ s.log = "stored" THEN Len(s.all_data)
    ELSE 0

\* those of them whose insert did not fail
Stored(s) == FilterIdx(SubSeq(s.all_data, 1, Processed(s)), 1, s.dropped)

FreshRows(s) == \A n \in DOMAIN price_data : price_data[n].id >= s.before.next_id

IsPrefix(a, b) == Len(a) <= Len(b) /\ SubSeq(b, 1, Len(a)) = a

NoDupNames(tbl) == \A m, n \in DOMAIN tbl : tbl[m].name = tbl[n].name => m = n

\* C1: after the history of a detail record came back, the run's records are
\* those before it with the single record replaced by what the expander
\* returned (the k history records, or the single record itself).
C1_HistorySupersedes ==
    [][\A r \in Runners :
          LET s == scraper[r]
              t == scraper'[r]
          IN s.pc = "history" /\ t # s =>
                Out(t) = SubSeq(Out(s), 1, Len(Out(s)) - 1)
                            \o get_commodity_details(t.history, s.detail_data[1])]_vars

\* C2 as claimed: a finished run in which no store request failed leaves in
\* price_data exactly its accumulated records, all rows written by this run.
C2_FullReplace ==
    \A r \in Runners :
        LET s == scraper[r] IN
        s.pc = "done" /\ ~s.store_failed =>
            Recs(price_data) = s.all_data /\ FreshRows(s)

\* C2 as amended: the same, for a run that accumulated at least one record.
C2_FullReplaceNonEmpty ==
    \A r \in Runners :
        LET s == scraper[r] IN
        s.pc = "done" /\ ~s.store_failed /\ s.all_data # <<>> =>
            Recs(price_data) = s.all_data /\ FreshRows(s)

C2_Witness ==
    \E r \in Runners :
        LET s == scraper[r] IN
        /\ s.pc = "done" /\ ~s.store_failed /\ s.all_data # <<>>
        /\ s.before.price_data # <<>>
        /\ Recs(s.before.price_data) # s.all_data

\* C3: while and after the batches are inserted, price_data holds the records
\* of the batches dealt with so far, in order, less the records whose single
\* insert failed; those lie in rejected batches only; success_count is the
\* number of rows inserted.
C3_BatchFallback ==
    \A r \in Runners :
        LET s == scraper[r] IN
        s.pc \in {"batch", "single"} \/ (s.pc = "done" /\ s.log = "stored") =>
            /\ Recs(price_data) = Stored(s)
            /\ s.success_count = Len(price_data)
            /\ \A d \in s.dropped : ((d - 1) \div batch_size) + 1 \in s.rejected
            /\ s.pc = "single" => s.b \in s.rejected
            /\ \A b \in s.rejected : Len(Batch(s.all_data, b)) <= batch_size

C3_Witness ==
    \E r \in Runners :
        LET s == scraper[r] IN
        /\ s.pc = "done" /\ s.log = "stored"
        /\ Len(s.all_data) > batch_size
        /\ s.rejected = {1}
        /\ Cardinality(s.dropped) = 1
        /\ Len(price_data) = Len(s.all_data) - 1

\* C4: no step leaves two cities rows or two commodities rows of one name,
\* and every step keeps the rows the two tables held, as they were.
C4_ReferenceTables ==
    [][/\ NoDupNames(cities') /\ NoDupNames(commodities')
       /\ IsPrefix(cities, cities') /\ IsPrefix(commodities, commodities')]_vars

C4_Witness ==
    \E r \in Runners :
        LET s == scraper[r] IN
        /\ s.pc = "done" /\ s.log = "stored"
        /\ s.before.cities # <<>> /\ s.before.price_data # <<>>
        /\ \E p, q \in CommodityPairs(s.all_data) : p[1] = q[1] /\ p[2] # q[2]
        /\ Len(commodities) < Cardinality(CommodityPairs(s.all_data))

\* the state page yields a city: it was fetched, has the selector, and an
\* option with a value, not disabled, whose label is not the placeholder
Yields(resp) ==
    /\ resp.ok
    /\ resp.dropdown
    /\ \E n \in DOMAIN resp.options :
          LET o == resp.options[n] IN
          o.value \notin {"", NoAttr} /\ o.disabled = NoAttr /\ o.text # Placeholder

\* C5: a run whose state page yields no city is over, having logged that no
\* city was found, having fetched the state page only, the store as it was.
C5_EmptyEnumerationAborts ==
    \A r \in Runners :
        LET s == scraper[r] IN
        s.pc \notin {"idle", "start"} /\ ~Yields(s.listing) =>
            /\ s.pc = "done" /\ s.log = "no_cities"
            /\ s.fetched = <<StateUrl>>
            /\ Snapshot = s.before

C5_Witness ==
    \E r \in Runners :
        LET s == scraper[r] IN
        /\ s.pc = "done" /\ s.log = "no_cities"
        /\ s.listing.ok /\ s.listing.dropdown /\ s.listing.options # <<>>
        /\ price_data # <<>> /\ cities # <<>> /\ commodities # <<>>

IsCityUrl(url) == url[1] = "mandi"

\* the cities whose page the run has fetched
CitiesFetched(s) ==
    IF s.pc = "city" THEN s.i - 1
    ELSE IF s.pc \in {"row", "history"} THEN s.i
    ELSE Len(s.cities)

\* C6: the city pages are fetched in enumeration order, one per city; the
\* store is untouched while cities are processed; the store writer runs with
\* every city processed and all_data the concatenation of what they emitted.
C6_SequentialThenStoreOnce ==
    \A r \in Runners :
        LET s == scraper[r] IN
        /\ s.pc \in {"city", "row", "history"} \cup StorePcs
              \/ (s.pc = "done" /\ s.log # "no_cities") =>
              /\ SelectSeq(s.fetched, IsCityUrl)
                    = [j \in 1..CitiesFetched(s) |-> city_url(s.cities[j])]
              /\ Len(s.emitted) = (IF s.pc \in {"city", "row", "history"}
                                   THEN s.i - 1 ELSE Len(s.cities))
              /\ s.all_data = Concat(s.emitted)
        /\ s.pc \in {"start", "city", "row", "history"} =>
              Snapshot = s.before /\ s.deleted_at = 0
        /\ s.pc \in StorePcs => s.i = Len(s.cities) + 1

C6_Witness ==
    \E r \in Runners :
        LET s == scraper[r] IN
        /\ s.pc = "done" /\ s.log = "stored"
        /\ Len(s.cities) = 2
        /\ s.emitted[1] = <<>> /\ s.emitted[2] # <<>>
        /\ Len(s.fetched) = 3

\* both runs are over, no store request of either failed, and no row was
\* inserted between their two deletes
BothDeletedFirst ==
    LET a == scraper["manual"]
        b == scraper["timed"]
    IN /\ a.pc = "done" /\ a.log = "stored" /\ ~a.store_failed
       /\ b.pc = "done" /\ b.log = "stored" /\ ~b.store_failed
       /\ a.deleted_at = b.deleted_at

\* C7: when two overlapping runs both delete before either inserts,
\* price_data ends with the records of both, the record set of neither.
C7_OverlapKeepsBoth ==
    BothDeletedFirst =>
        /\ Len(price_data) = Len(scraper["manual"].all_data) + Len(scraper["timed"].all_data)
        /\ Recs(price_data) # scraper["manual"].all_data
        /\ Recs(price_data) # scraper["timed"].all_data

C7_Witness ==
    /\ BothDeletedFirst
    /\ scraper["manual"].all_data # scraper["timed"].all_data

\* C8: once a run has deleted, price_data holds rows of this run only, namely
\* the records inserted so far without failure; a failed store request ends
\* the store writer (or its batch) and the run returns.
C8_DeleteNotRolledBack ==
    \A r \in Runners :
        LET s == scraper[r] IN
        /\ s.deleted_at > 0 =>
              /\ FreshRows(s)
              /\ Recs(price_data) = Stored(s)
              /\ s.log = "store_error" => price_data = <<>>
        /\ s.store_failed => s.pc \in {"batch", "single", "done"}
        /\ s.log = "store_error" => s.pc = "done"

C8_Witness ==
    \E r \in Runners :
        LET s == scraper[r] IN
        /\ s.pc = "done" /\ s.store_failed /\ s.deleted_at > 0
        /\ Len(price_data) < Len(s.before.price_data)

\* a history row that counts: no header, no mobile-view row, six cells
ValidHistoryRow(row) == ~row.th /\ row.class # "m_view" /\ Len(row.cells) >= 6

ValidHistoryRows(resp) ==
    IF resp.ok /\ resp.table THEN SelectSeq(resp.rows, ValidHistoryRow) ELSE <<>>

\* the record of a valid history row for a detail record of the given city
HistoryRecordOf(row, city) ==
    [city |-> city, date |-> row.cells[1], commodity |-> row.cells[2],
     variety |-> row.cells[3], min_price |-> row.cells[4], max_price |-> row.cells[5],
     modal_price |-> row.cells[6],
     price_range |-> IF row.cells[4] = "" \/ row.cells[5] = "" THEN "N/A"
                     ELSE row.cells[4] \o " - " \o row.cells[5]]

\* C9: what the expander returned for a detail record is that record alone
\* when the history page failed, has no table or no valid row, and else the
\* records of the valid rows, in table order, with the detail record's city.
C9_HistoricalExpander ==
    [][\A r \in Runners :
          LET s == scraper[r]
              t == scraper'[r]
              valid == ValidHistoryRows(t.history)
              returned == SubSeq(Out(t), Len(Out(s)) + 1, Len(Out(t)))
          IN s.pc = "history" /\ t # s =>
                returned = IF valid = <<>> THEN <<s.detail_data[1]>>
                           ELSE [n \in DOMAIN valid |->
                                    HistoryRecordOf(valid[n], s.detail_data[1].city)]]_vars

C9_Witness ==
    \E r \in Runners :
        LET s == scraper[r]
            valid == ValidHistoryRows(s.history)
        IN /\ s.pc \in {"row", "city", "delete"}
           /\ Len(valid) >= 2
           /\ Len(valid) < Len(s.history.rows)
           /\ \E n \in DOMAIN Out(s) :
                 Out(s)[n] = HistoryRecordOf(valid[2], s.cities[1].name)

\* a summary row with a toggle whose target is empty, or resolves to no
\* row, or to a row of fewer than six cells
MalformedRow(page, row) ==
    \/ ~row.button
    \/ StripHash(row.target) = ""
    \/ \A n \in DOMAIN page.trs : page.trs[n].id # StripHash(row.target)
    \/ \E n \in DOMAIN page.trs :
          /\ page.trs[n].id = StripHash(row.target)
          /\ \A m \in 1..(n - 1) : page.trs[m].id # StripHash(row.target)
          /\ Len(page.trs[n].cells) < 6

\* C10: the step over a malformed summary row emits no record, fetches
\* nothing, and goes on to the next row (or ends the city) with the records
\* emitted so far.
C10_MalformedRowDropped ==
    [][\A r \in Runners :
          LET s == scraper[r]
              t == scraper'[r]
          IN s.pc = "row" /\ t # s /\ MalformedRow(s.soup, s.soup.rows[s.row]) =>
                /\ Out(t) = Out(s)
                /\ t.fetched = s.fetched
                /\ t.pc \in {"row", "city", "delete", "done"}
                /\ IF s.row < Len(s.soup.rows)
                   THEN t.pc = "row" /\ t.row = s.row + 1 /\ t.soup = s.soup /\ t.i = s.i
                   ELSE t.i = s.i + 1 /\ t.emitted = Append(s.emitted, s.data)]_vars

C10_Witness ==
    \E r \in Runners :
        LET s == scraper[r] IN
        /\ s.pc = "row" /\ s.row > 1
        /\ MalformedRow(s.soup, s.soup.rows[s.row - 1])
        /\ Len(s.soup.trs[2].cells) < 6
        /\ s.data # <<>>

\* C11: a run that enumerated a city and accumulated no record never enters
\* the store writer's requests: it ends having logged that there is nothing
\* to store, with no delete and no failed store request, the three tables
\* and the next row id as they were when the run started.
C11_NoDataKeepsStore ==
    \A r \in Runners :
        LET s == scraper[r] IN
        /\ s.pc \in StorePcs => s.all_data # <<>>
        /\ s.pc = "done" /\ s.cities # <<>> /\ s.all_data = <<>> =>
              /\ s.log = "no_data"
              /\ Len(s.emitted) = Len(s.cities)
              /\ s.deleted_at = 0 /\ ~s.store_failed
              /\ Snapshot = s.before

C11_Witness ==
    \E r \in Runners :
        LET s == scraper[r] IN
        /\ s.pc = "done" /\ s.log = "no_data"
        /\ s.cities # <<>> /\ s.all_data = <<>>
        /\ price_data # <<>> /\ cities # <<>> /\ commodities # <<>>
        /\ price_data = s.before.price_data

====
